---- MODULE Spec2Model ----
(***************************************************************************)
(* RustTaTor: the Tor control-port client of src/src/main.rs.              *)
(*                                                                         *)
(* Protocol lines, commands and log records are TLA+ strings; the string   *)
(* functions of the Rust standard library that the code uses (trim, split, *)
(* starts_with, contains, slicing) are the operators of the first section. *)
(***************************************************************************)
EXTENDS Integers, Sequences, FiniteSets, TLC

(***************************************************************************)
(* Bounds of the model.                                                    *)
(***************************************************************************)
\* number of lines of the byte stream handed to read_response in SpecReader
MaxLines == 4
\* number of iterations of the orchestration loop of main that are explored
MaxRounds == 1

(***************************************************************************)
(* Strings.                                                                *)
(***************************************************************************)
\* s[i..] of Rust, with 0-based i: the suffix that follows the first i characters
From(s, i) == SubSeq(s, i + 1, Len(s))

\* the i-th character (1-based) as a one-character string
CharAt(s, i) == SubSeq(s, i, i)

\* str::starts_with
StartsWith(s, p) == Len(s) >= Len(p) /\ SubSeq(s, 1, Len(p)) = p

\* str::find from position i (1-based): the first position of p at or after i, 0 when there is none
FindFrom(s, p, i) ==
    LET at == {k \in i..(Len(s) - Len(p) + 1) : SubSeq(s, k, k + Len(p) - 1) = p} IN
    IF at = {} THEN 0 ELSE CHOOSE k \in at : \A j \in at : k <= j

\* str::contains
Contains(s, p) == FindFrom(s, p, 1) > 0

\* char::is_whitespace, on the characters a control connection carries
Whitespace == {" ", "\t", "\r", "\n"}

\* str::trim_start_matches for a set of characters
RECURSIVE TrimStartSet(_, _)
TrimStartSet(s, cs) ==
    IF Len(s) > 0 /\ CharAt(s, 1) \in cs THEN TrimStartSet(From(s, 1), cs) ELSE s

\* str::trim_end_matches for a set of characters
RECURSIVE TrimEndSet(_, _)
TrimEndSet(s, cs) ==
    IF Len(s) > 0 /\ CharAt(s, Len(s)) \in cs
    THEN TrimEndSet(SubSeq(s, 1, Len(s) - 1), cs) ELSE s

\* str::trim_matches for a set of characters
TrimMatches(s, cs) == TrimEndSet(TrimStartSet(s, cs), cs)

\* str::trim
Trim(s) == TrimMatches(s, Whitespace)

\* str::split(sep): the pieces between the occurrences of sep, empty pieces included
RECURSIVE Split(_, _)
Split(s, sep) ==
    LET k == FindFrom(s, sep, 1) IN
    IF k = 0 THEN <<s>>
    ELSE <<SubSeq(s, 1, k - 1)>> \o Split(From(s, k - 1 + Len(sep)), sep)

\* the non-empty members of a sequence of strings
RECURSIVE NonEmpty(_)
NonEmpty(ps) ==
    IF ps = <<>> THEN <<>>
    ELSE IF Head(ps) = "" THEN NonEmpty(Tail(ps))
    ELSE <<Head(ps)>> \o NonEmpty(Tail(ps))

\* every whitespace character replaced by a space
RECURSIVE Blank(_)
Blank(s) ==
    IF s = "" THEN ""
    ELSE (IF CharAt(s, 1) \in Whitespace THEN " " ELSE CharAt(s, 1)) \o Blank(From(s, 1))

\* str::split_whitespace
SplitWhitespace(s) == NonEmpty(Split(Blank(s), " "))

\* the elements of a sequence
Range(f) == {f[i] : i \in DOMAIN f}

\* the sequences of exactly n members of S
RECURSIVE SeqsOfLen(_, _)
SeqsOfLen(S, n) ==
    IF n = 0 THEN {<<>>}
    ELSE {<<x>> \o t : x \in S, t \in SeqsOfLen(S, n - 1)}

\* the members of a sequence of strings joined with a separator
RECURSIVE Join(_, _)
Join(ps, sep) ==
    IF ps = <<>> THEN ""
    ELSE IF Len(ps) = 1 THEN ps[1]
    ELSE ps[1] \o sep \o Join(Tail(ps), sep)

\* each member of a sequence of strings between double quotes
Quoted(ps) == [i \in DOMAIN ps |-> "\"" \o ps[i] \o "\""]

\* the {:?} rendering of a Vec<String> (the escaping of inner quotes left out)
Debug(ps) == "[" \o Join(Quoted(ps), ", ") \o "]"

(***************************************************************************)
(* Hex and HMAC.                                                           *)
(***************************************************************************)
\* size of a nonce in bytes (32 in the code, line 159)
NonceLen == 1
\* size of an HMAC output in bytes (32 for SHA-256)
HashLen == 1

LowerDigits == "0123456789abcdef"
UpperDigits == "0123456789ABCDEF"

\* hex::encode: two lowercase digits per byte
RECURSIVE HexEncode(_)
HexEncode(bs) ==
    IF bs = <<>> THEN ""
    ELSE CharAt(LowerDigits, (Head(bs) \div 16) + 1)
         \o CharAt(LowerDigits, (Head(bs) % 16) + 1)
         \o HexEncode(Tail(bs))

\* str::to_uppercase
RECURSIVE ToUpper(_)
ToUpper(s) ==
    IF s = "" THEN ""
    ELSE LET c == CharAt(s, 1)
             k == FindFrom("abcdefghijklmnopqrstuvwxyz", c, 1)
         IN (IF k > 0 THEN CharAt("ABCDEFGHIJKLMNOPQRSTUVWXYZ", k) ELSE c)
            \o ToUpper(From(s, 1))

\* the value of a hex digit of either case, -1 for any other character
HexVal(c) ==
    IF FindFrom(LowerDigits, c, 1) > 0 THEN FindFrom(LowerDigits, c, 1) - 1
    ELSE IF FindFrom(UpperDigits, c, 1) > 0 THEN FindFrom(UpperDigits, c, 1) - 1
    ELSE -1

\* the string is an even number of hex digits
IsHex(s) ==
    /\ Len(s) % 2 = 0
    /\ \A i \in 1..Len(s) : HexVal(CharAt(s, i)) >= 0

\* hex::decode of a string that IsHex
RECURSIVE HexDecode(_)
HexDecode(s) ==
    IF s = "" THEN <<>>
    ELSE <<HexVal(CharAt(s, 1)) * 16 + HexVal(CharAt(s, 2))>> \o HexDecode(From(s, 2))

\* the two HMAC keys of the SAFECOOKIE scheme (lines 217 and 237)
ServerKey == "Tor safe cookie authentication server-to-controller hash"
ClientKey == "Tor safe cookie authentication controller-to-server hash"

\* a running digest of the message bytes
RECURSIVE Digest(_, _)
Digest(msg, acc) ==
    IF msg = <<>> THEN acc
    ELSE Digest(Tail(msg), (acc * 33 + Head(msg) + 1) % 256)

\* Hmac<Sha256>: keyed by the key string, a function of every message byte,
\* HashLen bytes wide (the SHA-256 compression itself is abstracted)
Hmac(key, msg) ==
    [i \in 1..HashLen |-> (Digest(msg, FindFrom(key, "server", 1)) + 57 * i) % 256]

(***************************************************************************)
(* State.                                                                  *)
(***************************************************************************)
VARIABLES
    pc,        \* position of the single task that drives the connection
    inq,       \* bytes the daemon has written and the client has not read:
               \* a sequence of replies, each a sequence of lines
    wire,      \* the commands written to the control connection, in order, since
               \* main made its latest call of a TorControl method
    log,       \* the records written to the log since that call was made
    reading,   \* TRUE while a call of read_response is in its loop
    response,  \* read_response: the local `response`
    is_data,   \* read_response: the local `is_data`
    rres,      \* result of the last call of read_response: "none", "ok", "err"
    fed,       \* the lines the current call of read_response has read so far
    secret,    \* the bytes of the daemon's cookie file
    methods,      \* authenticate: the local `methods`
    cookie_file,  \* authenticate: the local `cookie_file`, <<>> for None, <<path>> for Some
    cookie_data,  \* authenticate: the local `cookie_data`
    client_nonce, \* authenticate: the local `client_nonce`
    verifiedAt,   \* number of commands written when the server hash was found equal, -1 before
    authResult,   \* what authenticate returned: "none" while it has not, "ok", "err"
    caller,    \* wait_for_circuits: where main called it from, "init" or "loop"
    polls,     \* wait_for_circuits: iterations of its for loop completed
    todo,      \* main: the nodes of the built circuits still to be resolved
    circuits,  \* the circuits the last call of get_circuit_info returned
    node_info, \* main: the (nickname, country) pairs of the nodes resolved
    rounds     \* main: iterations of its loop completed

rvars == <<reading, response, is_data, rres, fed>>
avars == <<methods, cookie_file, cookie_data, client_nonce, verifiedAt, authResult>>
mvars == <<caller, polls, todo, circuits, node_info, rounds>>
vars == <<pc, inq, wire, log, rvars, secret, avars, mvars>>

(***************************************************************************)
(* read_response (lines 285-314): one iteration of its loop.               *)
(***************************************************************************)
\* IsErrorLine without the 550 family
IsErrorLineNo550(t) == StartsWith(t, "515 ") \/ StartsWith(t, "551 ")

\* the error family the loop recognises
IsErrorLine(t) == StartsWith(t, "515 ") \/ StartsWith(t, "551 ") \/ StartsWith(t, "550 ")

\* Pushed with the status prefix left on the content
PushedWithPrefix(t, data) ==
    IF StartsWith(t, "250+") \/ StartsWith(t, "250-") \/ StartsWith(t, "250 ")
    THEN <<t>>
    ELSE IF IsErrorLine(t) THEN <<>>
    ELSE IF data /\ t /= "" THEN <<t>>
    ELSE IF StartsWith(t, "AUTHCHALLENGE ") THEN <<t>>
    ELSE <<>>

\* the content the loop appends for the trimmed line t: <<>> when it appends nothing
Pushed(t, data) ==
    IF StartsWith(t, "250+") \/ StartsWith(t, "250-") \/ StartsWith(t, "250 ")
    THEN <<From(t, 4)>>
    ELSE IF IsErrorLine(t) THEN <<>>
    ELSE IF data /\ t /= "" THEN <<t>>
    ELSE IF StartsWith(t, "AUTHCHALLENGE ") THEN <<t>>
    ELSE <<>>

\* Breaks that also takes a continuation line for the end of the reply
BreaksOnContinuation(t) == StartsWith(t, "250 ") \/ StartsWith(t, "250-")

\* the line ends the loop with Ok(response)
Breaks(t) == StartsWith(t, "250 ")

\* the line ends the loop with Err
Fails(t) == ~StartsWith(t, "250+") /\ ~StartsWith(t, "250-") /\ ~StartsWith(t, "250 ")
            /\ IsErrorLine(t)

\* ReadLine with the test of data mode before the tests of the status prefix
ReadLineDataFirst ==
    /\ reading
    /\ inq /= <<>>
    /\ LET line    == Head(Head(inq))
           trimmed == Trim(line)
           rest    == Tail(Head(inq))
       IN
       /\ inq' = IF line = "" THEN inq
                 ELSE IF rest = <<>> THEN Tail(inq)
                 ELSE <<rest>> \o Tail(inq)
       /\ fed' = IF line = "" THEN fed ELSE Append(fed, line)
       /\ log' = log \cup {"Raw response line: " \o trimmed}
       /\ is_data' = (is_data \/ StartsWith(trimmed, "250+"))
       /\ IF is_data /\ trimmed /= ""
          THEN /\ response' = Append(response, trimmed)
               /\ reading' = TRUE
               /\ rres' = rres
          ELSE IF Fails(trimmed)
          THEN /\ reading' = FALSE
               /\ rres' = "err"
               /\ response' = response
          ELSE /\ response' = response \o Pushed(trimmed, is_data)
               /\ reading' = ~Breaks(trimmed)
               /\ rres' = IF Breaks(trimmed) THEN "ok" ELSE rres
    /\ UNCHANGED <<pc, wire, secret, avars, mvars>>

\* BufRead::read_line at the head of the stream; at end of stream it
\* returns Ok(0) with an empty line and the stream stays where it is
ReadLine ==
    /\ reading
    /\ inq /= <<>>
    /\ LET line    == Head(Head(inq))
           trimmed == Trim(line)
           rest    == Tail(Head(inq))
       IN
       /\ inq' = IF line = "" THEN inq
                 ELSE IF rest = <<>> THEN Tail(inq)
                 ELSE <<rest>> \o Tail(inq)
       /\ fed' = IF line = "" THEN fed ELSE Append(fed, line)
       /\ log' = log \cup {"Raw response line: " \o trimmed}
       /\ is_data' = (is_data \/ StartsWith(trimmed, "250+"))
       /\ IF Fails(trimmed)
          THEN /\ reading' = FALSE
               /\ rres' = "err"
               /\ response' = response
          ELSE /\ response' = response \o Pushed(trimmed, is_data)
               /\ reading' = ~Breaks(trimmed)
               /\ rres' = IF Breaks(trimmed) THEN "ok" ELSE rres
    /\ UNCHANGED <<pc, wire, secret, avars, mvars>>

(***************************************************************************)
(* send_command (lines 280-283) followed by the entry of read_response     *)
(* (lines 286-288); every call of send_command in the code is followed by  *)
(* one of read_response.  The daemon's reply to the command is an input.   *)
(***************************************************************************)
SendCommand(cmd, reply) ==
    /\ wire' = Append(wire, cmd \o "\r\n")
    /\ inq' = Append(inq, reply)
    /\ reading' = TRUE
    /\ response' = <<>>
    /\ is_data' = FALSE
    /\ rres' = "none"
    /\ fed' = <<>>

\* the last command written
LastCmd == IF wire = <<>> THEN "" ELSE wire[Len(wire)]

(***************************************************************************)
(* The daemon's side of authentication: the replies it may give.           *)
(***************************************************************************)
CookiePath == "/run/tor/cookie"

\* the method lists a PROTOCOLINFO reply may advertise
MethodLists ==
    { "NULL", "HASHEDPASSWORD", "COOKIE,SAFECOOKIE,HASHEDPASSWORD",
      "SAFECOOKIE,HASHEDPASSWORD", "COOKIE,SAFECOOKIE",
      "COOKIE,NULL,HASHEDPASSWORD", "SAFECOOKIE,NULL,HASHEDPASSWORD",
      "COOKIE,SAFECOOKIE,NULL,HASHEDPASSWORD" }

ProtocolInfoReplies ==
    { << "250-PROTOCOLINFO 1\r\n",
         "250-AUTH METHODS=" \o m \o f \o "\r\n",
         "250 OK\r\n" >> :
         m \in MethodLists, f \in {"", " COOKIEFILE=\"" \o CookiePath \o "\""} }
    \cup { << "250-PROTOCOLINFO 1\r\n", "250 OK\r\n" >>,
           << "515 Authentication required\r\n" >> }

\* replies to AUTHENTICATE
AuthReplies ==
    { << "250 OK\r\n" >>, << "250-OK\r\n", "250 closing\r\n" >>,
      << "250 OKAY\r\n" >>, << "515 Bad authentication\r\n" >> }

\* the byte with its lowest bit flipped
FlipBit(b) == IF b % 2 = 0 THEN b + 1 ELSE b - 1

\* the server nonces the daemon may choose
ServerNonces == SeqsOfLen({90}, NonceLen)

\* replies to AUTHCHALLENGE SAFECOOKIE <nonce>: the honest one, one whose
\* hash differs in one bit, the honest one in lowercase, and malformed ones
ChallengeReplies(cookie, cnonce) ==
    UNION { LET good == Hmac(ServerKey, cookie \o cnonce \o sn)
                bad  == [good EXCEPT ![1] = FlipBit(good[1])]
                nh   == " SERVERNONCE=" \o ToUpper(HexEncode(sn))
            IN { << "250 AUTHCHALLENGE SERVERHASH=" \o ToUpper(HexEncode(good)) \o nh \o "\r\n" >>,
                 << "250 AUTHCHALLENGE SERVERHASH=" \o HexEncode(good) \o nh \o "\r\n" >>,
                 << "250 AUTHCHALLENGE SERVERHASH=" \o ToUpper(HexEncode(bad)) \o nh \o "\r\n" >>,
                 << "250 AUTHCHALLENGE SERVERHASH=" \o ToUpper(HexEncode(good)) \o "\r\n" >>,
                 << "250 AUTHCHALLENGE SERVERHASH=" \o ToUpper(HexEncode(good)) \o "G" \o nh \o "\r\n" >>,
                 << "250 AUTHCHALLENGE XSERVERHASH=" \o ToUpper(HexEncode(good)) \o nh \o "\r\n" >> }
          : sn \in ServerNonces }
    \cup { << "250 OK\r\n" >>, << "515 Bad authentication\r\n" >> }

(***************************************************************************)
(* authenticate (lines 76-278).                                            *)
(***************************************************************************)
\* lines 87-91: the methods of one AUTH line
MethodsOf(line) ==
    LET ps == Split(line, "METHODS=")
        ms == Split(ps[2], ",")
    IN [i \in DOMAIN ms |-> TrimMatches(Trim(ms[i]), {"\"", " "})]

\* lines 93-96: the cookie file of one AUTH line, <<>> when it names none
CookieFileOf(line) ==
    LET ps == Split(line, "COOKIEFILE=\"") IN
    IF Contains(line, "COOKIEFILE=") /\ Len(ps) >= 2
    THEN <<TrimEndSet(ps[2], {"\""})>>
    ELSE <<>>

\* lines 82-99: the loop over the PROTOCOLINFO content, cur = <<methods, cookie_file>>
RECURSIVE ParseProtocolInfo(_, _)
ParseProtocolInfo(lines, cur) ==
    IF lines = <<>> THEN cur
    ELSE LET l == Head(lines) IN
         ParseProtocolInfo(Tail(lines),
            IF Contains(l, "AUTH METHODS=")
            THEN << IF Len(Split(l, "METHODS=")) >= 2 THEN MethodsOf(l) ELSE cur[1],
                    IF CookieFileOf(l) /= <<>> THEN CookieFileOf(l) ELSE cur[2] >>
            ELSE cur)

\* OkLine that accepts any line containing OK
OkLineContains(line) == Contains(line, "OK")

\* lines 134, 258, 271: the test applied to each content line
OkLine(line) == line = "OK"

\* response.iter().any(|line| line == "OK")
HasOk(resp) == \E i \in DOMAIN resp : OkLine(resp[i])

\* Returned that lets main go on whatever authenticate returned
ReturnedIgnoringErr(result) == "authed"

\* the return of authenticate into main (lines 624-625): the `?` leaves main
\* on Err; otherwise main goes on (get_ip_info and create_tor_client are
\* collaborators outside the control connection)
Returned(result) == IF result = "ok" THEN "authed" ELSE "exit_err"

\* authenticate returns r
AuthReturn(r) ==
    /\ authResult' = r
    /\ pc' = Returned(r)

\* main, lines 611-620: the proxy check and TorControl::new may fail
MainStart ==
    /\ pc = "start"
    /\ \E up \in BOOLEAN : pc' = IF up THEN "auth" ELSE "exit_err"
    /\ UNCHANGED <<mvars, inq, wire, log, rvars, secret, avars>>

\* lines 71-74, 78
AuthProtocolInfo ==
    /\ pc = "auth"
    /\ \E reply \in ProtocolInfoReplies : SendCommand("PROTOCOLINFO", reply)
    /\ pc' = "auth_parse"
    /\ UNCHANGED <<mvars, log, secret, avars>>

\* lines 78-108: the reply to PROTOCOLINFO is parsed and the first scheme chosen
AuthParse ==
    /\ pc = "auth_parse"
    /\ ~reading
    /\ IF rres = "err"
       THEN /\ AuthReturn("err")
            /\ UNCHANGED <<log, methods, cookie_file>>
       ELSE LET parsed == ParseProtocolInfo(response, << <<>>, <<>> >>)
                ms == parsed[1]
                cf == parsed[2]
            IN
            /\ methods' = ms
            /\ cookie_file' = cf
            /\ log' = log \cup {"Protocol info response: " \o Debug(response),
                                "Supported auth methods: " \o Debug(ms)}
                          \cup {"Cookie file: " \o cf[i] : i \in DOMAIN cf}
            /\ pc' = IF cf /= <<>> /\ "COOKIE" \in Range(ms) THEN "auth_cookie"
                     ELSE IF cf /= <<>> /\ "SAFECOOKIE" \in Range(ms) THEN "auth_safe"
                     ELSE "auth_null"
            /\ authResult' = authResult
    /\ UNCHANGED <<mvars, inq, wire, rvars, secret, cookie_data, client_nonce, verifiedAt>>

\* lines 112-122 and 146-156: fs::read of the cookie file and its log records
CookieReadLog(data) ==
    {"Successfully read cookie file, length: " \o ToString(Len(data)),
     "Cookie data (hex): " \o HexEncode(data)}

\* lines 109-131: the COOKIE scheme up to its command
AuthCookie ==
    /\ pc = "auth_cookie"
    /\ \E readable \in BOOLEAN :
         IF ~readable
         THEN /\ log' = log \cup {"Attempting COOKIE authentication",
                                  "Failed to read cookie file: EACCES"}
              /\ AuthReturn("err")
              /\ UNCHANGED <<inq, wire, rvars, cookie_data>>
         ELSE LET cmd == "AUTHENTICATE " \o ToUpper(HexEncode(secret)) IN
              /\ cookie_data' = secret
              /\ log' = log \cup {"Attempting COOKIE authentication"}
                            \cup CookieReadLog(secret)
                            \cup {"Sending authentication command: " \o cmd}
              /\ \E reply \in AuthReplies : SendCommand(cmd, reply)
              /\ pc' = "auth_cookie_reply"
              /\ authResult' = authResult
    /\ UNCHANGED <<mvars, secret, methods, cookie_file, client_nonce, verifiedAt>>

\* lines 131-142: the reply to the COOKIE command
AuthCookieReply ==
    /\ pc = "auth_cookie_reply"
    /\ ~reading
    /\ IF rres = "err"
       THEN AuthReturn("err") /\ log' = log
       ELSE IF HasOk(response)
       THEN /\ log' = log \cup {"Authentication response: " \o Debug(response),
                                "Successfully authenticated with COOKIE"}
            /\ AuthReturn("ok")
       ELSE /\ log' = log \cup {"Authentication response: " \o Debug(response),
                                "COOKIE authentication failed, response: " \o Debug(response)}
            /\ pc' = IF "SAFECOOKIE" \in Range(methods) THEN "auth_safe" ELSE "auth_null"
            /\ authResult' = authResult
    /\ UNCHANGED <<mvars, inq, wire, rvars, secret, methods, cookie_file, cookie_data,
                   client_nonce, verifiedAt>>

\* the client nonces rand may produce
ClientNonces == SeqsOfLen({7, 200}, NonceLen)

\* lines 143-168: the SAFECOOKIE scheme up to AUTHCHALLENGE
AuthChallenge ==
    /\ pc = "auth_safe"
    /\ \E readable \in BOOLEAN :
         IF ~readable
         THEN /\ log' = log \cup {"Attempting SAFECOOKIE authentication",
                                  "Failed to read cookie file: EACCES"}
              /\ AuthReturn("err")
              /\ UNCHANGED <<inq, wire, rvars, cookie_data, client_nonce>>
         ELSE \E nonce \in ClientNonces :
              LET hex == ToUpper(HexEncode(nonce))
                  cmd == "AUTHCHALLENGE SAFECOOKIE " \o hex
              IN
              /\ cookie_data' = secret
              /\ client_nonce' = nonce
              /\ log' = log \cup {"Attempting SAFECOOKIE authentication"}
                            \cup CookieReadLog(secret)
                            \cup {"Generated client nonce (hex): " \o hex,
                                  "Sending AUTHCHALLENGE command: " \o cmd}
              /\ \E reply \in ChallengeReplies(secret, nonce) : SendCommand(cmd, reply)
              /\ pc' = "auth_safe_verify"
              /\ authResult' = authResult
    /\ UNCHANGED <<mvars, secret, methods, cookie_file, verifiedAt>>

\* iter().find(|l| l.contains(p)): <<>> for None, <<l>> for Some(l)
RECURSIVE FirstContaining(_, _)
FirstContaining(ls, p) ==
    IF ls = <<>> THEN <<>>
    ELSE IF Contains(Head(ls), p) THEN <<Head(ls)>>
    ELSE FirstContaining(Tail(ls), p)

\* iter().find(|l| l.starts_with(p)): <<>> for None, <<l>> for Some(l)
RECURSIVE FirstStartingWith(_, _)
FirstStartingWith(ls, p) ==
    IF ls = <<>> THEN <<>>
    ELSE IF StartsWith(Head(ls), p) THEN <<Head(ls)>>
    ELSE FirstStartingWith(Tail(ls), p)

\* ServerHashOk that compares the lengths only
ServerHashOkLength(computed, received) == Len(computed) = Len(received)

\* line 230: the hash computed locally against the one received
ServerHashOk(computed, received) == computed = received

\* lines 172-233: what the AUTHCHALLENGE content leads to.  kind is "absent"
\* (no line with SERVERHASH=, or no SERVERHASH=/SERVERNONCE= field),
\* "undecodable", "mismatch" or "verified"; logs are the records written on
\* the way; input is auth_input
Challenge(resp, cookie, cnonce) ==
    LET found == FirstContaining(resp, "SERVERHASH=") IN
    IF found = <<>>
    THEN [kind |-> "absent", input |-> <<>>,
          logs |-> {"Failed to get server nonce from AUTHCHALLENGE response"}]
    ELSE
    LET line  == found[1]
        parts == Split(line, " ")
        hp    == FirstStartingWith(parts, "SERVERHASH=")
        np    == FirstStartingWith(parts, "SERVERNONCE=")
        l1    == {"Found AUTHCHALLENGE line: " \o line, "Split parts: " \o Debug(parts)}
    IN
    IF hp = <<>> \/ np = <<>>
    THEN [kind |-> "absent", input |-> <<>>, logs |-> l1]
    ELSE
    LET hhex == From(hp[1], 11)
        nhex == From(np[1], 12)
        l2   == l1 \cup {"Server hash: " \o hhex, "Server nonce: " \o nhex}
    IN
    IF ~(IsHex(nhex) /\ IsHex(hhex))
    THEN [kind |-> "undecodable", input |-> <<>>,
          logs |-> l2 \cup {"Failed to decode server nonce or hash"}]
    ELSE
    LET server_hash  == HexDecode(hhex)
        server_nonce == HexDecode(nhex)
        auth_input   == cookie \o cnonce \o server_nonce
        computed     == Hmac(ServerKey, auth_input)
        l3 == l2 \cup {"Decoded server nonce length: " \o ToString(Len(server_nonce)),
                       "Decoded server hash length: " \o ToString(Len(server_hash)),
                       "Auth input length: " \o ToString(Len(auth_input)),
                       "Auth input (hex): " \o ToUpper(HexEncode(auth_input)),
                       "Computed server hash (hex): " \o ToUpper(HexEncode(computed)),
                       "Received server hash (hex): " \o ToUpper(HexEncode(server_hash))}
    IN
    IF ~ServerHashOk(computed, server_hash)
    THEN [kind |-> "mismatch", input |-> auth_input,
          logs |-> l3 \cup {"Server hash verification failed"}]
    ELSE [kind |-> "verified", input |-> auth_input,
          logs |-> l3 \cup {"Server hash verified successfully"}]

\* AuthVerify that goes on to the NULL scheme when the reply cannot be used
AuthVerifyFallsThrough ==
    /\ pc = "auth_safe_verify"
    /\ ~reading
    /\ IF rres = "err"
       THEN /\ AuthReturn("err")
            /\ UNCHANGED <<inq, wire, log, rvars, verifiedAt>>
       ELSE LET c  == Challenge(response, cookie_data, client_nonce)
                l0 == {"AUTHCHALLENGE response: " \o Debug(response)}
            IN
            IF c.kind \in {"absent", "undecodable"}
            THEN /\ log' = log \cup l0 \cup c.logs
                 /\ pc' = "auth_null"
                 /\ authResult' = authResult
                 /\ UNCHANGED <<inq, wire, rvars, verifiedAt>>
            ELSE IF c.kind /= "verified"
            THEN /\ log' = log \cup l0 \cup c.logs
                 /\ AuthReturn("err")
                 /\ UNCHANGED <<inq, wire, rvars, verifiedAt>>
            ELSE LET client_hash == Hmac(ClientKey, c.input)
                     hex == ToUpper(HexEncode(client_hash))
                     cmd == "AUTHENTICATE " \o hex
                 IN
                 /\ verifiedAt' = Len(wire)
                 /\ log' = log \cup l0 \cup c.logs
                               \cup {"Client hash (hex): " \o hex,
                                     "Sending authentication command: " \o cmd}
                 /\ \E reply \in AuthReplies : SendCommand(cmd, reply)
                 /\ pc' = "auth_safe_reply"
                 /\ authResult' = authResult
    /\ UNCHANGED <<mvars, secret, methods, cookie_file, cookie_data, client_nonce>>

\* lines 168-255: the reply to AUTHCHALLENGE is checked; the client hash is
\* sent only when the server hash was found equal
AuthVerify ==
    /\ pc = "auth_safe_verify"
    /\ ~reading
    /\ IF rres = "err"
       THEN /\ AuthReturn("err")
            /\ UNCHANGED <<inq, wire, log, rvars, verifiedAt>>
       ELSE LET c  == Challenge(response, cookie_data, client_nonce)
                l0 == {"AUTHCHALLENGE response: " \o Debug(response)}
            IN
            IF c.kind /= "verified"
            THEN /\ log' = log \cup l0 \cup c.logs
                 /\ AuthReturn("err")
                 /\ UNCHANGED <<inq, wire, rvars, verifiedAt>>
            ELSE LET client_hash == Hmac(ClientKey, c.input)
                     hex == ToUpper(HexEncode(client_hash))
                     cmd == "AUTHENTICATE " \o hex
                 IN
                 /\ verifiedAt' = Len(wire)
                 /\ log' = log \cup l0 \cup c.logs
                               \cup {"Client hash (hex): " \o hex,
                                     "Sending authentication command: " \o cmd}
                 /\ \E reply \in AuthReplies : SendCommand(cmd, reply)
                 /\ pc' = "auth_safe_reply"
                 /\ authResult' = authResult
    /\ UNCHANGED <<mvars, secret, methods, cookie_file, cookie_data, client_nonce>>

\* lines 255-264: the reply to the client hash
AuthSafeReply ==
    /\ pc = "auth_safe_reply"
    /\ ~reading
    /\ IF rres = "err"
       THEN AuthReturn("err") /\ log' = log
       ELSE IF HasOk(response)
       THEN /\ log' = log \cup {"Authentication response: " \o Debug(response),
                                "Successfully authenticated with SAFECOOKIE"}
            /\ AuthReturn("ok")
       ELSE /\ log' = log \cup {"Authentication response: " \o Debug(response),
                                "SAFECOOKIE authentication failed, response: " \o Debug(response)}
            /\ pc' = "auth_null"
            /\ authResult' = authResult
    /\ UNCHANGED <<mvars, inq, wire, rvars, secret, methods, cookie_file, cookie_data,
                   client_nonce, verifiedAt>>

\* AuthNull without the test of the methods
AuthNullAlways ==
    /\ pc = "auth_null"
    /\ log' = log \cup {"Attempting null authentication"}
    /\ \E reply \in AuthReplies : SendCommand("AUTHENTICATE", reply)
    /\ pc' = "auth_null_reply"
    /\ authResult' = authResult
    /\ UNCHANGED <<mvars, secret, methods, cookie_file, cookie_data, client_nonce, verifiedAt>>

\* lines 266-269 and 277: the bare AUTHENTICATE, or the failure of authenticate
AuthNull ==
    /\ pc = "auth_null"
    /\ IF "NULL" \in Range(methods) \/ methods = <<>>
       THEN /\ log' = log \cup {"Attempting null authentication"}
            /\ \E reply \in AuthReplies : SendCommand("AUTHENTICATE", reply)
            /\ pc' = "auth_null_reply"
            /\ authResult' = authResult
       ELSE /\ AuthReturn("err")
            /\ UNCHANGED <<inq, wire, log, rvars>>
    /\ UNCHANGED <<mvars, secret, methods, cookie_file, cookie_data, client_nonce, verifiedAt>>

\* lines 270-277: the reply to the bare AUTHENTICATE
AuthNullReply ==
    /\ pc = "auth_null_reply"
    /\ ~reading
    /\ IF rres = "ok" /\ HasOk(response)
       THEN /\ log' = log \cup {"Successfully authenticated with null authentication"}
            /\ AuthReturn("ok")
       ELSE /\ log' = log
            /\ AuthReturn("err")
    /\ UNCHANGED <<mvars, inq, wire, rvars, secret, methods, cookie_file, cookie_data,
                   client_nonce, verifiedAt>>

(***************************************************************************)
(* The daemon's side of the privileged commands.                           *)
(***************************************************************************)
\* replies to GETINFO circuit-status
CircuitReplies ==
    { << "250+circuit-status=\r\n",
         "7 BUILT $AAAAAAAA~alpha,$BBBBBBBB~beta PURPOSE=GENERAL\r\n",
         ".\r\n", "250 OK\r\n" >>,
      << "250+circuit-status=\r\n",
         "8 BUILT $CCCCCCCC~gamma BUILD_FLAGS=IS_INTERNAL PURPOSE=HS_VANGUARDS\r\n",
         "9 EXTENDED $DDDD PURPOSE=GENERAL\r\n",
         ".\r\n", "250 OK\r\n" >>,
      << "250+circuit-status=\r\n",
         "CIRC1 BUILT $AAAA~nodeA,$BBBB~nodeB PURPOSE=GENERAL\r\n",
         ".\r\n", "250 OK\r\n" >>,
      << "250+circuit-status=\r\n",
         "10 LAUNCHED BUILD_FLAGS=NEED_CAPACITY PURPOSE=GENERAL\r\n",
         ".\r\n", "250 OK\r\n" >>,
      << "250+circuit-status=\r\n",
         "11 BUILT $EEEEEEEE~eps, PURPOSE=GENERAL\r\n",
         ".\r\n", "250 OK\r\n" >>,
      << "250-circuit-status=\r\n", "250 OK\r\n" >>,
      << "551 Internal error\r\n" >> }

\* replies to GETINFO ns/id/<id>
NodeReplies(id) ==
    { << "250+ns/id/" \o id \o "=\r\n",
         "r alpha AAAA digest 2038-01-01 00:00:00 10.0.0.1 9001 0\r\n",
         ".\r\n", "250 OK\r\n" >>,
      << "250 OK\r\n" >>,
      << "551 Internal error\r\n" >> }

\* replies to SIGNAL
SignalReplies == { << "250 OK\r\n" >>, << "551 Internal error\r\n" >> }

(***************************************************************************)
(* get_circuit_info (lines 316-356).                                       *)
(***************************************************************************)
\* lines 333-339: one entry of the path field
PathEntry(e) ==
    LET k == FindFrom(e, "~", 1) IN
    IF k > 0 THEN SubSeq(e, 2, k - 1) ELSE From(e, 1)

\* the slices of lines 335 and 337 are out of range: the entry is empty or
\* starts with `~`
PathEntryPanics(e) == e = "" \/ StartsWith(e, "~")

\* lines 342-344: the purpose among the fields after the path
Purpose(fields) ==
    LET p == FirstStartingWith(fields, "PURPOSE=") IN
    IF p = <<>> THEN "UNKNOWN" ELSE Join(Split(p[1], "PURPOSE="), "")

\* lines 321-353: the circuits of the content lines
RECURSIVE ParseCircuits(_)
ParseCircuits(lines) ==
    IF lines = <<>> THEN <<>>
    ELSE LET line  == Head(lines)
             parts == SplitWhitespace(line)
         IN
         IF StartsWith(line, "circuit-status=") \/ Len(parts) < 3
         THEN ParseCircuits(Tail(lines))
         ELSE LET es == Split(parts[3], ",") IN
              << [id      |-> parts[1],
                  status  |-> parts[2],
                  path    |-> [i \in DOMAIN es |-> PathEntry(es[i])],
                  purpose |-> Purpose(SubSeq(parts, 4, Len(parts)))] >>
              \o ParseCircuits(Tail(lines))

\* some path entry of some line makes get_circuit_info panic
CircuitsPanic(lines) ==
    \E i \in DOMAIN lines :
        LET parts == SplitWhitespace(lines[i]) IN
        /\ ~StartsWith(lines[i], "circuit-status=")
        /\ Len(parts) >= 3
        /\ \E e \in Range(Split(parts[3], ",")) : PathEntryPanics(e)

\* Usable without the test of the purpose
UsableAnyPurpose(c) == c.status = "BUILT"

\* lines 392 and 672: the circuit is usable
Usable(c) == c.status = "BUILT" /\ Contains(c.purpose, "GENERAL")

\* the paths of the usable circuits, one after the other
RECURSIVE UsablePaths(_)
UsablePaths(cs) ==
    IF cs = <<>> THEN <<>>
    ELSE (IF Usable(Head(cs)) THEN Head(cs).path ELSE <<>>) \o UsablePaths(Tail(cs))

(***************************************************************************)
(* main after authenticate (lines 627-665) and wait_for_circuits           *)
(* (lines 389-398).                                                        *)
(***************************************************************************)
\* number of polls of wait_for_circuits (line 390)
PollBudget == 30

\* send_command at the start of a call that main makes: the records of the
\* commands and of the log start again
SendFirst(cmd, reply) ==
    /\ log' = {}
    /\ SendCommand(cmd, reply)!2
    /\ SendCommand(cmd, reply)!3
    /\ SendCommand(cmd, reply)!4
    /\ SendCommand(cmd, reply)!5
    /\ SendCommand(cmd, reply)!6
    /\ SendCommand(cmd, reply)!7
    /\ wire' = <<cmd \o "\r\n">>

\* lines 625-660: authenticate has returned and its locals are gone; the
\* egress collaborators run; create_tor_client may fail and its `?` leaves
\* main; otherwise wait_for_circuits is called
MainClient ==
    /\ pc = "authed"
    /\ \E made \in BOOLEAN :
         pc' = IF made THEN "wait_poll" ELSE "exit_err"
    /\ caller' = "init"
    /\ polls' = 0
    /\ methods' = <<>>
    /\ cookie_file' = <<>>
    /\ cookie_data' = <<>>
    /\ client_nonce' = <<>>
    /\ verifiedAt' = -1
    /\ UNCHANGED <<inq, wire, log, rvars, secret, authResult, todo, node_info, circuits, rounds>>

\* lines 390-391 and 317: one poll is sent
WaitPoll ==
    /\ pc = "wait_poll"
    /\ polls < PollBudget
    /\ \E reply \in CircuitReplies :
         IF polls = 0
         THEN SendFirst("GETINFO circuit-status", reply)
         ELSE SendCommand("GETINFO circuit-status", reply) /\ log' = log
    /\ pc' = "wait_reply"
    /\ UNCHANGED <<secret, avars, mvars>>

\* where main goes when wait_for_circuits returns (lines 661-665, 730-743):
\* at start-up a failure leaves main; in the loop a failure goes to the next
\* iteration by `continue`, a success to create_tor_client
WaitReturn(ok) ==
    IF caller = "init"
    THEN (IF ok THEN "loop_top" ELSE "exit_err")
    ELSE (IF ok THEN "loop_client" ELSE "loop_continue")

\* the log record main writes when wait_for_circuits returns
WaitLog(ok) ==
    IF caller = "init"
    THEN (IF ok THEN {"Tor circuits established successfully"}
          ELSE {"Failed to establish Tor circuits"})
    ELSE (IF ok THEN {} ELSE {"Failed to establish new circuits"})

\* WaitReply that takes a failed query for a poll without a usable circuit
WaitReplyKeepsPolling ==
    /\ pc = "wait_reply"
    /\ ~reading
    /\ IF rres = "err"
       THEN pc' = "wait_sleep" /\ log' = log
       ELSE IF CircuitsPanic(response)
       THEN pc' = "panic" /\ log' = log
       ELSE IF \E c \in Range(ParseCircuits(response)) : Usable(c)
       THEN pc' = WaitReturn(TRUE) /\ log' = log \cup WaitLog(TRUE)
       ELSE pc' = "wait_sleep" /\ log' = log
    /\ circuits' = IF rres = "err" \/ CircuitsPanic(response) THEN <<>>
                   ELSE ParseCircuits(response)
    /\ UNCHANGED <<inq, wire, rvars, secret, avars, caller, polls, todo, node_info, rounds>>

\* lines 318-356 and 391-394: the reply to a poll
WaitReply ==
    /\ pc = "wait_reply"
    /\ ~reading
    /\ IF rres = "err"
       THEN pc' = WaitReturn(FALSE) /\ log' = log \cup WaitLog(FALSE)
       ELSE IF CircuitsPanic(response)
       THEN pc' = "panic" /\ log' = log
       ELSE IF \E c \in Range(ParseCircuits(response)) : Usable(c)
       THEN pc' = WaitReturn(TRUE) /\ log' = log \cup WaitLog(TRUE)
       ELSE pc' = "wait_sleep" /\ log' = log
    /\ circuits' = IF rres = "err" \/ CircuitsPanic(response) THEN <<>>
                   ELSE ParseCircuits(response)
    /\ UNCHANGED <<inq, wire, rvars, secret, avars, caller, polls, todo, node_info, rounds>>

\* WaitSleep with one iteration more
WaitSleepOneMore ==
    /\ pc = "wait_sleep"
    /\ polls' = polls + 1
    /\ IF polls < PollBudget
       THEN pc' = "wait_poll" /\ log' = log
       ELSE pc' = WaitReturn(FALSE) /\ log' = log \cup WaitLog(FALSE)
    /\ circuits' = <<>>
    /\ UNCHANGED <<inq, wire, rvars, secret, avars, caller, todo, node_info, rounds>>

\* lines 395-397: the one-second sleep, then the next iteration or the timeout
WaitSleep ==
    /\ pc = "wait_sleep"
    /\ polls' = polls + 1
    /\ IF polls + 1 < PollBudget
       THEN pc' = "wait_poll" /\ log' = log
       ELSE pc' = WaitReturn(FALSE) /\ log' = log \cup WaitLog(FALSE)
    /\ circuits' = <<>>
    /\ UNCHANGED <<inq, wire, rvars, secret, avars, caller, todo, node_info, rounds>>

(***************************************************************************)
(* The loop of main (lines 667-747).                                       *)
(***************************************************************************)
\* lines 669 and 317
LoopCircuits ==
    /\ pc = "loop_top"
    /\ rounds < MaxRounds
    /\ \E reply \in CircuitReplies : SendFirst("GETINFO circuit-status", reply)
    /\ pc' = "loop_circuits"
    /\ UNCHANGED <<secret, avars, mvars>>

\* lines 318-356 and 670-694: the circuits are parsed and the usable ones kept
LoopCircuitsReply ==
    /\ pc = "loop_circuits"
    /\ ~reading
    /\ IF rres = "err"
       THEN /\ pc' = "loop_egress"
            /\ log' = log \cup {"Failed to get circuit info"}
            /\ todo' = <<>>
            /\ circuits' = <<>>
       ELSE IF CircuitsPanic(response)
       THEN pc' = "panic" /\ log' = log /\ todo' = <<>> /\ circuits' = <<>>
       ELSE LET nodes == UsablePaths(ParseCircuits(response)) IN
            /\ todo' = nodes
            /\ circuits' = ParseCircuits(response)
            /\ pc' = "loop_nodes"
            /\ log' = log \cup (IF \E c \in Range(ParseCircuits(response)) : Usable(c)
                                THEN {"Active Tor Circuits:"}
                                ELSE {"No active Tor circuits found!"})
    /\ node_info' = <<>>
    /\ UNCHANGED <<inq, wire, rvars, secret, avars, caller, polls, rounds>>

\* lines 679-680 and 373: the next node is asked for, or the circuits are done
LoopNode ==
    /\ pc = "loop_nodes"
    /\ IF todo = <<>>
       THEN /\ pc' = "loop_egress"
            /\ UNCHANGED <<inq, wire, log, rvars>>
       ELSE /\ \E reply \in NodeReplies(Head(todo)) :
                 SendFirst("GETINFO ns/id/" \o Head(todo), reply)
            /\ pc' = "loop_node"
    /\ UNCHANGED <<secret, avars, mvars>>

\* lines 376-386: the nickname and country of the content, <<>> when line 386
\* is reached
RECURSIVE NodeOf(_)
NodeOf(lines) ==
    IF lines = <<>> THEN <<>>
    ELSE LET parts == SplitWhitespace(Head(lines)) IN
         IF Contains(Head(lines), "r ") /\ Len(parts) > 3
         THEN <<parts[2], parts[4]>>
         ELSE NodeOf(Tail(lines))

\* lines 374-387 and 680-684: the reply for a node; the fallback slices the
\* first 6 characters of the id, in get_node_info (line 386) or in main
\* (line 683), and the slice of a shorter id panics
LoopNodeReply ==
    /\ pc = "loop_node"
    /\ ~reading
    /\ IF rres = "err" \/ NodeOf(response) = <<>>
       THEN IF Len(Head(todo)) < 6
            THEN pc' = "panic" /\ todo' = todo /\ node_info' = node_info
            ELSE /\ pc' = "loop_nodes"
                 /\ todo' = Tail(todo)
                 /\ node_info' = Append(node_info, <<SubSeq(Head(todo), 1, 6), "??">>)
       ELSE /\ pc' = "loop_nodes"
            /\ todo' = Tail(todo)
            /\ node_info' = Append(node_info, NodeOf(response))
    /\ UNCHANGED <<inq, wire, log, rvars, secret, avars, caller, polls, circuits, rounds>>

\* lines 694-720: the circuits go out of scope; the egress lookup, which
\* may fail
LoopEgress ==
    /\ pc = "loop_egress"
    /\ \E found \in BOOLEAN :
         log' = log \cup (IF found THEN {} ELSE {"Failed to get IP info"})
    /\ pc' = "loop_switch"
    /\ circuits' = <<>>
    /\ node_info' = <<>>
    /\ UNCHANGED <<inq, wire, rvars, secret, avars, caller, polls, todo, rounds>>

\* SwitchFailed with the failure swallowed
SwitchFailedSwallowed ==
    /\ pc' = "switch_settle"
    /\ log' = log

\* where main goes when switch_identity fails (lines 724-725, 746)
SwitchFailed ==
    /\ pc' = "loop_sleep"
    /\ log' = log \cup {"Failed to switch identity"}

\* lines 723-724 and 360
SwitchClear ==
    /\ pc = "loop_switch"
    /\ \E reply \in SignalReplies : SendFirst("SIGNAL CLEARDNSCACHE", reply)
    /\ pc' = "switch_clear"
    /\ UNCHANGED <<secret, avars, mvars>>

\* SwitchNewnym without the wait for the reply to SIGNAL CLEARDNSCACHE
SwitchNewnymEarly ==
    /\ pc = "switch_clear"
    /\ IF rres = "err"
       THEN SwitchFailed /\ UNCHANGED <<inq, wire, rvars>>
       ELSE /\ \E reply \in SignalReplies : SendCommand("SIGNAL NEWNYM", reply)
            /\ pc' = "switch_newnym"
            /\ log' = log
    /\ UNCHANGED <<secret, avars, mvars>>

\* lines 361-364
SwitchNewnym ==
    /\ pc = "switch_clear"
    /\ ~reading
    /\ IF rres = "err"
       THEN SwitchFailed /\ UNCHANGED <<inq, wire, rvars>>
       ELSE /\ \E reply \in SignalReplies : SendCommand("SIGNAL NEWNYM", reply)
            /\ pc' = "switch_newnym"
            /\ log' = log
    /\ UNCHANGED <<secret, avars, mvars>>

\* line 365
SwitchNewnymReply ==
    /\ pc = "switch_newnym"
    /\ ~reading
    /\ IF rres = "err"
       THEN SwitchFailed
       ELSE pc' = "switch_settle" /\ log' = log
    /\ UNCHANGED <<inq, wire, rvars, secret, avars, mvars>>

\* lines 368-369 and 726-730: the settle delay, then main calls wait_for_circuits
SwitchSettle ==
    /\ pc = "switch_settle"
    /\ pc' = "wait_poll"
    /\ caller' = "loop"
    /\ polls' = 0
    /\ log' = log \cup {"Identity switch requested, establishing new circuit..."}
    /\ UNCHANGED <<inq, wire, rvars, secret, avars, todo, node_info, circuits, rounds>>

\* lines 736-742: the egress client is replaced, or the failure logged
LoopClient ==
    /\ pc = "loop_client"
    /\ \E made \in BOOLEAN :
         log' = log \cup (IF made THEN {"New Tor circuit established"}
                          ELSE {"Failed to create new Tor client"})
    /\ pc' = "loop_sleep"
    /\ UNCHANGED <<inq, wire, rvars, secret, avars, mvars>>

\* line 746: the rotation interval, then the next iteration
LoopSleep ==
    /\ pc = "loop_sleep"
    /\ pc' = "loop_top"
    /\ rounds' = rounds + 1
    /\ UNCHANGED <<inq, wire, log, rvars, secret, avars, caller, polls, todo, node_info, circuits>>

\* line 732: `continue` starts the next iteration
LoopContinue ==
    /\ pc = "loop_continue"
    /\ pc' = "loop_top"
    /\ rounds' = rounds + 1
    /\ UNCHANGED <<inq, wire, log, rvars, secret, avars, caller, polls, todo, node_info, circuits>>

\* the cookie files the daemon may have written
Secrets == { <<171, 18>> }

Init ==
    /\ pc = "start"
    /\ inq = <<>>
    /\ wire = <<>>
    /\ log = {}
    /\ reading = FALSE
    /\ response = <<>>
    /\ is_data = FALSE
    /\ rres = "none"
    /\ fed = <<>>
    /\ secret \in Secrets
    /\ methods = <<>>
    /\ cookie_file = <<>>
    /\ cookie_data = <<>>
    /\ client_nonce = <<>>
    /\ verifiedAt = -1
    /\ authResult = "none"
    /\ caller = "init"
    /\ polls = 0
    /\ todo = <<>>
    /\ circuits = <<>>
    /\ node_info = <<>>
    /\ rounds = 0

Authenticate ==
    \/ AuthProtocolInfo
    \/ AuthParse
    \/ AuthCookie
    \/ AuthCookieReply
    \/ AuthChallenge
    \/ AuthVerify
    \/ AuthSafeReply
    \/ AuthNull
    \/ AuthNullReply

WaitForCircuits ==
    \/ WaitPoll
    \/ WaitReply
    \/ WaitSleep

SwitchIdentity ==
    \/ SwitchClear
    \/ SwitchNewnym
    \/ SwitchNewnymReply
    \/ SwitchSettle

Loop ==
    \/ LoopCircuits
    \/ LoopCircuitsReply
    \/ LoopNode
    \/ LoopNodeReply
    \/ LoopEgress
    \/ LoopClient
    \/ LoopSleep
    \/ LoopContinue

Next ==
    \/ MainStart
    \/ Authenticate
    \/ MainClient
    \/ WaitForCircuits
    \/ Loop
    \/ SwitchIdentity
    \/ ReadLine

Spec == Init /\ [][Next]_vars

(***************************************************************************)
(* SpecReader: read_response applied to every stream of MaxLines lines.    *)
(***************************************************************************)
ReaderLines ==
    { "250-A\r\n", "250-B b\r\n", "250 C\r\n", "250 OK\r\n",
      "250+circuit-status=\r\n", "7 BUILT $AAAA PURPOSE=GENERAL\r\n", ".\r\n",
      "\r\n", "515 Bad authentication\r\n", "550 Unspecified\r\n",
      "551 Internal error\r\n", "510 Unrecognized command\r\n" }

\* the streams: MaxLines lines with the channel still open after them, or
\* fewer lines and then the end of the stream, which read_line reports as
\* an empty line
InitReader ==
    /\ pc = "reader"
    /\ \/ inq \in {<<s>> : s \in SeqsOfLen(ReaderLines, MaxLines)}
       \/ \E k \in 0..(MaxLines - 1) :
             inq \in {<<Append(s, "")>> : s \in SeqsOfLen(ReaderLines, k)}
    /\ wire = <<>>
    /\ log = {}
    /\ reading = TRUE
    /\ response = <<>>
    /\ is_data = FALSE
    /\ rres = "none"
    /\ fed = <<>>
    /\ secret = <<>>
    /\ methods = <<>>
    /\ cookie_file = <<>>
    /\ cookie_data = <<>>
    /\ client_nonce = <<>>
    /\ verifiedAt = -1
    /\ authResult = "none"
    /\ caller = "init"
    /\ polls = 0
    /\ todo = <<>>
    /\ circuits = <<>>
    /\ node_info = <<>>
    /\ rounds = 0

NextReader == ReadLine

SpecReader == InitReader /\ [][NextReader]_vars

(***************************************************************************)
(* The reply grammar of the wire, stated on the lines as the daemon wrote  *)
(* them (status prefix and CRLF included).                                 *)
(***************************************************************************)
\* the 4-character status prefix of a wire line
Prefix(l) == IF Len(l) >= 4 THEN SubSeq(l, 1, 4) ELSE l

\* the text of a wire line: what lies between the status prefix and CRLF
WireText(l) == IF Len(l) >= 6 THEN SubSeq(l, 5, Len(l) - 2) ELSE ""

\* a wire line without its CRLF
WireBody(l) == IF Len(l) >= 2 THEN SubSeq(l, 1, Len(l) - 2) ELSE ""

\* zero or more 250- lines followed by one 250<space> line
PlainReply(ls) ==
    /\ Len(ls) >= 1
    /\ \A i \in 1..(Len(ls) - 1) : Prefix(ls[i]) = "250-"
    /\ Prefix(ls[Len(ls)]) = "250 "

\* a line that carries no status prefix the reply grammar knows
IsDataLine(l) == Prefix(l) \notin {"250+", "250-", "250 ", "515 ", "550 ", "551 ", "510 "}

\* a 250+ line, data lines, a lone "." and the final 250 OK
DataBlockReply(ls) ==
    /\ Len(ls) >= 3
    /\ Prefix(ls[1]) = "250+"
    /\ \A i \in 2..(Len(ls) - 2) : IsDataLine(ls[i]) /\ ls[i] /= ".\r\n"
    /\ ls[Len(ls) - 1] = ".\r\n"
    /\ ls[Len(ls)] = "250 OK\r\n"

C6_DataBlockContent ==
    (rres = "ok" /\ DataBlockReply(fed)) =>
        /\ \A i \in 2..(Len(fed) - 2) :
               WireBody(fed[i]) /= "" => WireBody(fed[i]) \in Range(response)
        /\ "." \notin Range(response)

\* C7: once a line of code 515, 550 or 551 followed by a space has been read,
\* the call has failed: that line is the last one it read, it is not in its
\* loop any more and its result is the error, not the content gathered.
C7_ErrorLineFails ==
    \A n \in 1..Len(fed) :
        Prefix(fed[n]) \in {"515 ", "550 ", "551 "} =>
            /\ n = Len(fed)
            /\ ~reading
            /\ rres = "err"

\* a 550 line arrived after content had been gathered, with lines left unread
C7_Witness ==
    /\ rres = "err"
    /\ Len(fed) >= 2
    /\ Prefix(fed[Len(fed)]) = "550 "
    /\ response /= <<>>
    /\ inq /= <<>>

(***************************************************************************)
(* Claims on authenticate and main, checked under Spec.                    *)
(***************************************************************************)
\* the positions of wire
Sent == DOMAIN wire

\* the COOKIE command: AUTHENTICATE with the cookie in uppercase hex
CookieCmd == "AUTHENTICATE " \o ToUpper(HexEncode(secret)) \o "\r\n"

\* the NULL command
BareCmd == "AUTHENTICATE\r\n"

IsChallengeCmd(c) == StartsWith(c, "AUTHCHALLENGE SAFECOOKIE ")
IsAuthenticateCmd(c) == StartsWith(c, "AUTHENTICATE")

\* C1: when AUTHCHALLENGE SAFECOOKIE has been sent, every AUTHENTICATE
\* command on the wire (cookie, client hash or bare) was sent after the
\* received SERVERHASH had been found equal to the computed one.
C1_NoAuthenticateBeforeVerification ==
    (\E j \in Sent : IsChallengeCmd(wire[j])) =>
        \A i \in Sent :
            IsAuthenticateCmd(wire[i]) => (verifiedAt >= 0 /\ i > verifiedAt)

\* the last line read, without its CRLF
LastFed == IF fed = <<>> THEN "" ELSE WireBody(fed[Len(fed)])

\* the hex text that follows `key` in the last line read, up to the next space
FieldOf(key) ==
    LET ps == Split(LastFed, " " \o key) IN
    IF Len(ps) < 2 THEN "?" ELSE Split(ps[2], " ")[1]

\* the reply to AUTHCHALLENGE is complete, both fields decode, and the server
\* hash over (cookie, client nonce, server nonce) differs from SERVERHASH
HashMismatch ==
    /\ IsChallengeCmd(LastCmd)
    /\ ~reading
    /\ rres = "ok"
    /\ IsHex(FieldOf("SERVERHASH="))
    /\ IsHex(FieldOf("SERVERNONCE="))
    /\ Hmac(ServerKey, secret \o client_nonce \o HexDecode(FieldOf("SERVERNONCE=")))
         /= HexDecode(FieldOf("SERVERHASH="))

\* C2: when the computed server hash differs from the received SERVERHASH,
\* the next step of authenticate returns the error without writing any
\* command (no client hash, no bare AUTHENTICATE), and nothing follows the
\* failed authentication.
C2_MismatchFails ==
    [][ /\ (HashMismatch /\ pc /= "exit_err") =>
              (wire' = wire /\ authResult' = "err" /\ pc' = "exit_err")
        /\ (pc = "exit_err") => FALSE ]_vars

\* authenticate has returned the error after a server hash that differs
C2_Witness ==
    /\ HashMismatch
    /\ pc = "exit_err"
    /\ authResult = "err"
    /\ "Server hash verification failed" \in log

\* the place of a command in the order COOKIE, SAFECOOKIE, NULL
Rank(c) ==
    IF c = "PROTOCOLINFO\r\n" THEN 0
    ELSE IF c = CookieCmd THEN 1
    ELSE IF IsChallengeCmd(c) THEN 2
    ELSE IF c = BareCmd THEN 4
    ELSE IF IsAuthenticateCmd(c) THEN 3
    ELSE 5

\* wire holds the commands of authenticate
InAuthenticate == wire /= <<>> /\ wire[1] = "PROTOCOLINFO\r\n"

\* the reply just read has, on the wire, a 250 line whose text is exactly OK
ReplyHasOk ==
    /\ rres = "ok"
    /\ \E i \in DOMAIN fed :
          Prefix(fed[i]) \in {"250-", "250 ", "250+"} /\ WireText(fed[i]) = "OK"

\* C3: the commands of authenticate follow the order COOKIE, SAFECOOKIE, NULL;
\* it returns success exactly when the reply to the last command it sent, an
\* AUTHENTICATE, has a content line equal to OK; and once such a reply has
\* been read it returns success without sending anything more.
C3_OrderAndFirstSuccess ==
    /\ [] (InAuthenticate =>
             /\ \A i, j \in Sent : i < j => Rank(wire[i]) < Rank(wire[j])
             /\ (pc \in {"authed", "exit_err"} /\ authResult /= "none") =>
                   (authResult = "ok" <=>
                       (IsAuthenticateCmd(LastCmd) /\ ReplyHasOk)))
    /\ [][ (InAuthenticate /\ authResult = "none" /\ ~reading
            /\ IsAuthenticateCmd(LastCmd) /\ ReplyHasOk) =>
              (wire' = wire /\ authResult' = "ok") ]_vars

\* the three schemes were tried in order and the bare AUTHENTICATE succeeded
C3_Witness ==
    /\ pc = "authed"
    /\ authResult = "ok"
    /\ Len(wire) = 5
    /\ wire[2] = CookieCmd
    /\ IsChallengeCmd(wire[3])
    /\ wire[5] = BareCmd

\* C4: authenticate reports failure only after the applicable schemes were
\* tried: with COOKIE and SAFECOOKIE advertised and a cookie file known the
\* SAFECOOKIE exchange was attempted, and with NULL advertised the bare
\* AUTHENTICATE was sent.
C4_FailsOnlyAfterAllBranches ==
    authResult = "err" =>
        /\ (cookie_file /= <<>> /\ "COOKIE" \in Range(methods)
              /\ "SAFECOOKIE" \in Range(methods)) =>
              \E i \in Sent : IsChallengeCmd(wire[i])
        /\ "NULL" \in Range(methods) => BareCmd \in Range(wire)

\* C8: at most one command is outstanding: the stream never holds more than
\* the reply to one command, so no command is written while the reply to the
\* previous one is incomplete.
C8_HalfDuplex == Len(inq) <= 1

\* the second line of the reply to a node query is being awaited, in the loop
C8_Witness ==
    /\ pc = "loop_node"
    /\ reading
    /\ Len(inq) = 1
    /\ Len(fed) >= 2

\* the privileged commands
IsPrivileged(c) == StartsWith(c, "GETINFO ") \/ StartsWith(c, "SIGNAL ")

\* C9: a privileged command is on the wire only if authenticate returned
\* success, and a failed authenticate ends the process.
C9_PrivilegedOnlyAuthenticated ==
    /\ \A i \in Sent : IsPrivileged(wire[i]) => authResult = "ok"
    /\ authResult = "err" => pc = "exit_err"

\* SIGNAL NEWNYM has been written after a successful authentication
C9_Witness ==
    /\ authResult = "ok"
    /\ LastCmd = "SIGNAL NEWNYM\r\n"

\* the wire line ends a reply with a code outside the 250 family and the
\* error family 515, 550, 551
IsUnexpectedTerminal(l) == Prefix(l) \in {"510 ", "552 ", "451 "}

\* C18: a reply of zero or more 250- lines ended by a line of another code
\* than 250, 515, 550, 551 (510, 552, 451) ends the call: that line is the
\* last one read and the result is the error.
C18_UnexpectedCodeFails ==
    \A n \in 1..Len(fed) :
        (IsUnexpectedTerminal(fed[n]) /\ \A i \in 1..(n - 1) : Prefix(fed[i]) = "250-") =>
            /\ n = Len(fed)
            /\ ~reading
            /\ rres = "err"

\* the channel is closed: read_line is at the end of the stream
AtEndOfStream == inq /= <<>> /\ Head(Head(inq)) = ""

\* C19: a read at the end of the stream, before the terminating line of the
\* reply, ends the call with an error; and the call never returns success
\* on a reply whose terminating line it has not read.
C19_EndOfStreamFails ==
    /\ [][ (reading /\ AtEndOfStream) => (~reading' /\ rres' = "err") ]_vars
    /\ []((~reading /\ rres = "ok") => (fed /= <<>> /\ Prefix(fed[Len(fed)]) = "250 "))

\* the next line of the stream, as the daemon wrote it
NextLine == Head(Head(inq))

\* C20: in data mode (after a 250+ line) a line with a status prefix is
\* taken as the status line it is: `250 ` ends the reply with success,
\* `250-` is a continuation, `515 `, `550 `, `551 ` end it with the error;
\* what is appended is the text without the prefix, never the line as it
\* stands.
C20_StatusLinesInDataMode ==
    [][ (reading /\ is_data /\ inq /= <<>>) =>
          /\ Prefix(NextLine) = "250 " =>
                 (~reading' /\ rres' = "ok"
                    /\ response' = Append(response, WireText(NextLine)))
          /\ Prefix(NextLine) = "250-" =>
                 (reading' /\ response' = Append(response, WireText(NextLine)))
          /\ Prefix(NextLine) \in {"515 ", "550 ", "551 "} =>
                 (~reading' /\ rres' = "err" /\ response' = response)
          /\ Prefix(NextLine) \in {"250 ", "250-", "515 ", "550 ", "551 "} =>
                 WireBody(NextLine) \notin Range(response') ]_vars

\* a data block was followed by a continuation line and the terminating
\* line, and both were taken as status lines
C20_Witness ==
    /\ ~reading
    /\ rres = "ok"
    /\ is_data
    /\ fed = <<"250+circuit-status=\r\n", "7 BUILT $AAAA PURPOSE=GENERAL\r\n",
               "250-A\r\n", "250 OK\r\n">>
    /\ response = <<"circuit-status=", "7 BUILT $AAAA PURPOSE=GENERAL", "A", "OK">>

(***************************************************************************)
(* Claims on get_circuit_info.                                             *)
(***************************************************************************)
\* one entry of a path as the daemon writes it, `$` fingerprint and
\* optional `~` nickname: the fingerprint
FingerprintOf(e) ==
    LET s == IF StartsWith(e, "$") THEN From(e, 1) ELSE e
        k == FindFrom(s, "~", 1)
    IN IF k > 0 THEN SubSeq(s, 1, k - 1) ELSE s

\* the value of the first PURPOSE= token of the fields, "UNKNOWN" without one
PurposeOf(fields) ==
    IF \E i \in DOMAIN fields : StartsWith(fields[i], "PURPOSE=")
    THEN LET i == CHOOSE i \in DOMAIN fields :
                      /\ StartsWith(fields[i], "PURPOSE=")
                      /\ \A j \in 1..(i - 1) : ~StartsWith(fields[j], "PURPOSE=")
         IN From(fields[i], 8)
    ELSE "UNKNOWN"

\* the circuit of one content line of at least three fields
CircuitOf(line) ==
    LET f  == SplitWhitespace(line)
        es == Split(f[3], ",")
    IN [id      |-> f[1],
        status  |-> f[2],
        path    |-> [i \in DOMAIN es |-> FingerprintOf(es[i])],
        purpose |-> PurposeOf(SubSeq(f, 4, Len(f)))]

\* the content lines of at least three fields, in order
RECURSIVE LongLines(_)
LongLines(lines) ==
    IF lines = <<>> THEN <<>>
    ELSE (IF Len(SplitWhitespace(Head(lines))) >= 3 THEN <<Head(lines)>> ELSE <<>>)
         \o LongLines(Tail(lines))

\* get_circuit_info has just returned the circuits of the content in response
CircuitsReturned ==
    /\ pc \in {"wait_sleep", "loop_nodes"}
    /\ LastCmd = "GETINFO circuit-status\r\n"
    /\ rres = "ok"

\* C11: the circuits returned are, line by line, those of the content lines
\* of at least three fields: id is field 1, status field 2, path the entries
\* of field 3 without the leading `$` and cut at `~`, purpose the value of the
\* PURPOSE= token of the later fields or "UNKNOWN".
C11_CircuitPerLine ==
    CircuitsReturned =>
        circuits = [i \in DOMAIN LongLines(response) |-> CircuitOf(LongLines(response)[i])]

\* the content lines that count: at least three fields and not the header
CountedLines ==
    {i \in DOMAIN response :
        /\ Len(SplitWhitespace(response[i])) >= 3
        /\ ~StartsWith(response[i], "circuit-status=")}

\* the reply to a circuit-status query has been read with success and
\* get_circuit_info is about to go through its lines
CircuitsToParse ==
    /\ pc \in {"wait_reply", "loop_circuits"}
    /\ ~reading
    /\ rres = "ok"

\* C21: going through the lines of a reply, get_circuit_info does not fail,
\* and it returns as many circuits as there are lines of at least three
\* fields that do not start with circuit-status=: the header, the final OK,
\* the terminator of the data block and any other short line give none.
C21_ShortLinesSkipped ==
    [][ CircuitsToParse =>
          /\ pc' /= "panic"
          /\ Len(circuits') = Cardinality(CountedLines) ]_vars

(***************************************************************************)
(* Claims on wait_for_circuits.                                            *)
(***************************************************************************)
\* wait_for_circuits is running
InWait == pc \in {"wait_poll", "wait_reply", "wait_sleep"}

\* main is where it goes when wait_for_circuits returned Ok(())
WaitSucceeded == pc \in {"loop_top", "loop_client"}

\* main is where it goes when wait_for_circuits returned an error
WaitFailed == pc \in {"exit_err", "loop_continue"}

\* the circuit is built and of a general purpose
IsUsable(c) == c.status = "BUILT" /\ Contains(c.purpose, "GENERAL")

\* the commands written are all circuit-status queries
OnlyPolls == \A i \in Sent : wire[i] = "GETINFO circuit-status\r\n"

\* C12: when the reply to a poll has been read, wait_for_circuits returns
\* success exactly if the circuits of that poll hold one whose status is
\* BUILT and whose purpose contains GENERAL; it then has left its loop
\* without writing another query.  A poll without such a circuit never
\* gives success.
C12_SuccessAtFirstUsable ==
    [][ (pc = "wait_reply" /\ pc' /= "wait_reply" /\ rres = "ok") =>
            /\ WaitSucceeded' <=> (\E c \in Range(circuits') : IsUsable(c))
            /\ WaitSucceeded' => (wire' = wire /\ ~InWait')
            /\ ~WaitSucceeded' => (pc' \in {"wait_sleep", "panic"}) ]_vars

\* in the loop, the third poll was the first with a usable circuit and
\* wait_for_circuits returned success after three queries
C12_Witness ==
    /\ pc = "loop_client"
    /\ polls = 2
    /\ Len(wire) = 3
    /\ OnlyPolls
    /\ \E c \in Range(circuits) : IsUsable(c)

\* C13: wait_for_circuits never writes more than 30 queries; as long as
\* every query succeeded without a usable circuit it goes on polling until
\* 30 queries are written, and after the 30th it returns the timeout
\* error, never success.
C13_TimeoutAfterBudget ==
    /\ [](InWait => (polls < PollBudget /\ Len(wire) <= PollBudget))
    /\ [](pc = "wait_sleep" => (OnlyPolls /\ Len(wire) = polls + 1))
    /\ [][ pc = "wait_sleep" =>
              /\ wire' = wire
              /\ IF Len(wire) = PollBudget THEN WaitFailed' ELSE pc' = "wait_poll" ]_vars

\* at start-up 30 queries were written, each answered without a usable
\* circuit, and wait_for_circuits returned the timeout
C13_Witness ==
    /\ pc = "exit_err"
    /\ caller = "init"
    /\ rres = "ok"
    /\ OnlyPolls
    /\ Len(wire) = PollBudget
    /\ "Failed to establish Tor circuits" \in log

ClearCmd == "SIGNAL CLEARDNSCACHE\r\n"

NewnymCmd == "SIGNAL NEWNYM\r\n"

\* switch_identity is running
InSwitch == pc \in {"switch_clear", "switch_newnym", "switch_settle"}

\* the reply to the last command has been read to its end, with success
ReplyComplete == ~reading /\ rres = "ok" /\ inq = <<>>

\* C14: switch_identity writes SIGNAL CLEARDNSCACHE, then, once the reply to
\* it is complete, SIGNAL NEWNYM, then, once the reply to that one is
\* complete, it sleeps; it writes nothing else, and no circuit-status query.
C14_SignalOrder ==
    /\ [](pc = "switch_clear" => wire = <<ClearCmd>>)
    /\ [](pc \in {"switch_newnym", "switch_settle"} => wire = <<ClearCmd, NewnymCmd>>)
    /\ [](pc = "switch_settle" => ReplyComplete)
    /\ [][ (InSwitch /\ wire' /= wire) =>
              (pc = "switch_clear" /\ ReplyComplete /\ wire' = <<ClearCmd, NewnymCmd>>) ]_vars
    /\ [][ (InSwitch' /\ ~InSwitch) => (pc = "loop_switch" /\ pc' = "switch_clear") ]_vars

\* both signals were written and answered, and the settle delay is running
C14_Witness ==
    /\ pc = "switch_settle"
    /\ wire = <<ClearCmd, NewnymCmd>>
    /\ ReplyComplete
    /\ fed = <<"250 OK\r\n">>

\* the reply to the last signal has been read and is an error
SignalFailed ==
    /\ pc \in {"switch_clear", "switch_newnym"}
    /\ ~reading
    /\ rres = "err"

\* C15: when the reply to SIGNAL CLEARDNSCACHE or to SIGNAL NEWNYM is an
\* error reply, switch_identity returns the error: nothing more is written
\* (no SIGNAL NEWNYM after a failed CLEARDNSCACHE), the settle delay is not
\* taken, and main logs the failure and goes to the interval sleep without
\* waiting for circuits or replacing the egress client.
C15_SignalErrorSurfaces ==
    /\ [][ SignalFailed =>
              /\ wire' = wire
              /\ pc' = "loop_sleep"
              /\ "Failed to switch identity" \in log'
              /\ "Identity switch requested, establishing new circuit..." \notin log' ]_vars
    /\ [](pc = "switch_newnym" => "Failed to switch identity" \notin log)
    /\ []((pc = "loop_sleep" /\ LastCmd = ClearCmd) =>
              (rres = "err" /\ "Failed to switch identity" \in log))

\* SIGNAL CLEARDNSCACHE was answered by 551 and main is at its interval
\* sleep with the failure logged and nothing written after the signal
C15_Witness ==
    /\ pc = "loop_sleep"
    /\ wire = <<ClearCmd>>
    /\ rres = "err"
    /\ fed = <<"551 Internal error\r\n">>
    /\ "Failed to switch identity" \in log

\* the reply to AUTHCHALLENGE is complete and its last line has no
\* SERVERHASH= field, no SERVERNONCE= field, or one that is not hex
ChallengeMalformed ==
    /\ IsChallengeCmd(LastCmd)
    /\ ~reading
    /\ rres = "ok"
    /\ (~IsHex(FieldOf("SERVERHASH=")) \/ ~IsHex(FieldOf("SERVERNONCE=")))

\* C23: when the reply to AUTHCHALLENGE lacks SERVERHASH= or SERVERNONCE=,
\* or one of the two values is not hex, authenticate returns an error and
\* main ends; no command is written after AUTHCHALLENGE, neither an
\* AUTHENTICATE with a client hash nor the bare one.
C23_MalformedChallengeFails ==
    /\ [][ ChallengeMalformed =>
              (authResult' = "err" /\ pc' = "exit_err" /\ wire' = wire) ]_vars
    /\ []((ChallengeMalformed /\ pc /= "auth_safe_verify") =>
              (authResult = "err" /\ pc = "exit_err"))

\* the SERVERHASH value held a character that is no hex digit, NULL was
\* among the methods, and authenticate has failed with AUTHCHALLENGE the
\* last command written
C23_Witness ==
    /\ ChallengeMalformed
    /\ Contains(LastFed, "G SERVERNONCE=")
    /\ "NULL" \in Range(methods)
    /\ authResult = "err"
    /\ pc = "exit_err"

(***************************************************************************)
(* Claims on get_node_info and its caller.                                 *)
(***************************************************************************)
\* the reply to the node query was an error or holds no line with `r ` and
\* more than three fields
Unparseable ==
    \/ rres = "err"
    \/ ~\E i \in DOMAIN response :
          Contains(response[i], "r ") /\ Len(SplitWhitespace(response[i])) > 3

\* the first 6 characters of the id, the whole id when it is shorter
Short(id) == IF Len(id) > 6 THEN SubSeq(id, 1, 6) ELSE id

\* C16: whatever the reply to GETINFO ns/id/<id>, main gets a pair for the
\* node and goes on to the next node; when the reply is an error reply or
\* holds no parseable `r` line the pair is (first 6 characters of the id, "??").
C16_NodeAlwaysResolved ==
    [][ (pc = "loop_node" /\ ~reading) =>
            /\ pc' = "loop_nodes"
            /\ todo' = Tail(todo)
            /\ Len(node_info') = Len(node_info) + 1
            /\ Unparseable => node_info'[Len(node_info')] = <<Short(Head(todo)), "??">> ]_vars

(***************************************************************************)
(* Claims on the parse of the PROTOCOLINFO reply.                          *)
(***************************************************************************)
\* the lines of the reply read that carry the AUTH field
AuthLines == {i \in DOMAIN fed : Contains(fed[i], "AUTH METHODS=")}

\* the methods a wire line lists after METHODS=, up to the next space
Listed(l) == Range(Split(Split(Split(WireBody(l), "METHODS=")[2], " ")[1], ","))

\* the wire line names a cookie file
NamesCookieFile(l) == Contains(l, " COOKIEFILE=\"")

\* the PROTOCOLINFO reply has just been parsed and a branch chosen
ProtocolInfoParsed ==
    /\ pc \in {"auth_cookie", "auth_safe", "auth_null"}
    /\ LastCmd = "PROTOCOLINFO\r\n"
    /\ rres = "ok"

\* C17: the methods parsed from the PROTOCOLINFO reply are exactly those
\* listed after AUTH METHODS=, with or without a COOKIEFILE field after the
\* list; so with a cookie file named, COOKIE listed leads to the COOKIE
\* attempt and SAFECOOKIE listed without COOKIE to the SAFECOOKIE attempt.
C17_MethodsAsListed ==
    ProtocolInfoParsed =>
        \A i \in AuthLines :
            /\ Range(methods) = Listed(fed[i])
            /\ (NamesCookieFile(fed[i]) /\ "COOKIE" \in Listed(fed[i])) =>
                   pc = "auth_cookie"
            /\ (NamesCookieFile(fed[i]) /\ "COOKIE" \notin Listed(fed[i])
                   /\ "SAFECOOKIE" \in Listed(fed[i])) =>
                   pc = "auth_safe"

\* C22: the bare AUTHENTICATE is on the wire only if the methods parsed hold
\* NULL or are empty, and the methods parsed hold NULL only if the daemon
\* listed it and are empty only if it sent no AUTH line; so when authenticate
\* has failed with a non-empty list without NULL, no bare AUTHENTICATE was
\* written.
C22_BareOnlyForNull ==
    /\ ProtocolInfoParsed =>
          /\ (methods = <<>>) <=> (AuthLines = {})
          /\ "NULL" \in Range(methods) =>
                 \E i \in AuthLines : "NULL" \in Listed(fed[i])
    /\ (InAuthenticate /\ BareCmd \in Range(wire)) =>
          ("NULL" \in Range(methods) \/ methods = <<>>)
    /\ (InAuthenticate /\ authResult = "err" /\ pc = "exit_err"
           /\ methods /= <<>> /\ "NULL" \notin Range(methods)) =>
          BareCmd \notin Range(wire)

\* NULL was listed with COOKIE; the cookie was refused and the bare
\* AUTHENTICATE has been written
C22_Witness ==
    /\ pc = "auth_null_reply"
    /\ wire = <<"PROTOCOLINFO\r\n", CookieCmd, BareCmd>>
    /\ "NULL" \in Range(methods)

(***************************************************************************)
(* Claims on the loop of main.                                             *)
(***************************************************************************)
\* main is in its loop
InLoop ==
    \/ pc \in {"loop_top", "loop_circuits", "loop_nodes", "loop_node", "loop_egress",
                "loop_switch", "switch_clear", "switch_newnym", "switch_settle",
                "loop_client", "loop_sleep", "loop_continue"}
    \/ (InWait /\ caller = "loop")

\* C24: no failure of a step of the loop ends main, and an iteration of the
\* loop is followed by the next one only through the sleep of the rotation
\* interval, on the paths where a step failed as on the others.
C24_IntervalAlwaysWaited ==
    /\ [][ InLoop => pc' /= "exit_err" ]_vars
    /\ [][ (InLoop /\ rounds' /= rounds) => pc = "loop_sleep" ]_vars

\* the text holds the cookie in hex of either case
HoldsCookie(m) ==
    Contains(m, HexEncode(secret)) \/ Contains(m, ToUpper(HexEncode(secret)))

\* C10: no log record holds the cookie secret, and the only command that
\* holds it is the AUTHENTICATE command of the COOKIE scheme.
C10_CookieNeverLogged ==
    /\ \A m \in log : ~HoldsCookie(m)
    /\ \A i \in Sent : HoldsCookie(wire[i]) => wire[i] = CookieCmd

====
